---- MODULE Spec2Model ----
(***************************************************************************)
(* verifyshuho: reconciliation of an invoice workbook (the billing ledger) *)
(* against a shuho workbook (the work log).                                *)
(*                                                                         *)
(* A Go string is a sequence of one-character strings.  The two work-type  *)
(* labels of the program are written in kanji/kana, which the module's     *)
(* character set cannot hold; they are spelled here as the sequences       *)
(* Honyaku (the translation label) and EibunCheck (the check label).       *)
(* A time.Time is a day number counted from January 1 of year 0: every     *)
(* time the program builds has a zero time of day, and time.Now() is only  *)
(* ever read through Year() and YearDay().                                 *)
(***************************************************************************)
EXTENDS Integers, Sequences, FiniteSets, TLC

(***************************************************************************)
(* Bounds of the model.                                                    *)
(***************************************************************************)
MaxInvoiceRows == 3
MaxShuhoRows == 3
FirstYear == 2023
NumYears == 2

(***************************************************************************)
(* Strings.                                                                *)
(***************************************************************************)
Honyaku == <<"hon", "yaku">>
EibunCheck == <<"ei", "bun", "chekku">>
UNKNOWN == <<"U", "N", "K", "N", "O", "W", "N">>
Rate18 == <<"1", "8">>
Rate14 == <<"1", ".", "4">>

Digits == {"0", "1", "2", "3", "4", "5", "6", "7", "8", "9"}

DigitVal(c) ==
    CASE c = "0" -> 0 [] c = "1" -> 1 [] c = "2" -> 2 [] c = "3" -> 3
      [] c = "4" -> 4 [] c = "5" -> 5 [] c = "6" -> 6 [] c = "7" -> 7
      [] c = "8" -> 8 [] c = "9" -> 9

AllDigits(s) == Len(s) > 0 /\ \A i \in 1..Len(s) : s[i] \in Digits

RECURSIVE ReplaceAll(_, _)
\* strings.ReplaceAll(s, old, "") for a one-character old
ReplaceAll(s, old) ==
    IF s = <<>> THEN <<>>
    ELSE IF Head(s) = old THEN ReplaceAll(Tail(s), old)
    ELSE <<Head(s)>> \o ReplaceAll(Tail(s), old)

\* fmt.Sprintf("%s %s %s", a, b, c)
Sprintf3(a, b, c) == a \o <<" ">> \o b \o <<" ">> \o c

(***************************************************************************)
(* The calendar of package time.                                           *)
(***************************************************************************)
isLeap(y) == y % 4 = 0 /\ (y % 100 # 0 \/ y % 400 = 0)

daysIn(m, y) ==
    IF m = 2 THEN (IF isLeap(y) THEN 29 ELSE 28)
    ELSE IF m \in {4, 6, 9, 11} THEN 30 ELSE 31

\* days from January 1 of year 0 to January 1 of year y
daysBeforeYear(y) ==
    365 * y + ((y + 3) \div 4) - ((y + 99) \div 100) + ((y + 399) \div 400)

RECURSIVE daysBeforeMonth(_, _)
daysBeforeMonth(m, y) ==
    IF m = 1 THEN 0 ELSE daysBeforeMonth(m - 1, y) + daysIn(m - 1, y)

\* time.Date(y, m, d, 0, 0, 0, 0, loc): a day past the month's end rolls over
Date(y, m, d) == daysBeforeYear(y) + daysBeforeMonth(m, y) + d - 1

Year(t) ==
    CHOOSE y \in (t \div 366)..(t \div 365) :
        daysBeforeYear(y) <= t /\ t < daysBeforeYear(y + 1)

YearDay(t) == t - daysBeforeYear(Year(t)) + 1

Month(t) ==
    CHOOSE m \in 1..12 :
        /\ daysBeforeMonth(m, Year(t)) < YearDay(t)
        /\ YearDay(t) <= daysBeforeMonth(m, Year(t)) + daysIn(m, Year(t))

Day(t) == YearDay(t) - daysBeforeMonth(Month(t), Year(t))

\* t.AddDate(0, 0, days)
AddDate(t, days) == t + days

After(t, u) == t > u

Before(t, u) == t < u

(***************************************************************************)
(* time.Parse for the two layouts the program uses.  A result is           *)
(* [ok |-> TRUE, t |-> day number] or [ok |-> FALSE].                      *)
(***************************************************************************)
ParseError == [ok |-> FALSE, t |-> 0]

\* layout "01-02-06": two digits each; a year of 69 and up is in the 1900s
ParseMDY(value) ==
    IF /\ Len(value) = 8
       /\ \A i \in {1, 2, 4, 5, 7, 8} : value[i] \in Digits
       /\ value[3] = "-" /\ value[6] = "-"
    THEN LET month == 10 * DigitVal(value[1]) + DigitVal(value[2])
             day == 10 * DigitVal(value[4]) + DigitVal(value[5])
             yy == 10 * DigitVal(value[7]) + DigitVal(value[8])
             year == IF yy >= 69 THEN 1900 + yy ELSE 2000 + yy
         IN IF month < 1 \/ month > 12 THEN ParseError
            ELSE IF day < 1 \/ day > daysIn(month, year) THEN ParseError
            ELSE [ok |-> TRUE, t |-> Date(year, month, day)]
    ELSE ParseError

\* getnum(s, false): one digit, or two when the second character is a digit
getnumLen(s) ==
    IF Len(s) = 0 \/ s[1] \notin Digits THEN 0
    ELSE IF Len(s) >= 2 /\ s[2] \in Digits THEN 2 ELSE 1

getnumVal(s) ==
    IF getnumLen(s) = 2 THEN 10 * DigitVal(s[1]) + DigitVal(s[2])
    ELSE DigitVal(s[1])

\* layout "1/2": the year stays 0, which is a leap year
ParseMD(value) ==
    LET n1 == getnumLen(value)
        rest1 == SubSeq(value, n1 + 1, Len(value))
        rest2 == Tail(rest1)
        n2 == getnumLen(rest2)
    IN IF n1 = 0 \/ rest1 = <<>> \/ Head(rest1) # "/" THEN ParseError
       ELSE IF n2 = 0 \/ Len(rest2) # n2 THEN ParseError
       ELSE LET month == getnumVal(value)
                day == getnumVal(rest2)
            IN IF month < 1 \/ month > 12 THEN ParseError
               ELSE IF day < 1 \/ day > daysIn(month, 0) THEN ParseError
               ELSE [ok |-> TRUE, t |-> Date(0, month, day)]

(***************************************************************************)
(* The date resolver.                                                      *)
(***************************************************************************)
\* thisYearOrLastYear taking "last year" from today's year, not from the
\* year of today + 7 days
thisYearOrLastYearOfToday(theDate, now) ==
    LET MyYear == IF YearDay(theDate) <= YearDay(AddDate(now, 7))
                  THEN Year(now)
                  ELSE Year(now) - 1
    IN Date(MyYear, Month(theDate), Day(theDate))

thisYearOrLastYear(theDate, now) ==
    LET MyYear == IF YearDay(theDate) <= YearDay(AddDate(now, 7))
                  THEN Year(now)
                  ELSE Year(AddDate(now, 7)) - 1
    IN Date(MyYear, Month(theDate), Day(theDate))

\* [ok |-> FALSE] is the os.Exit(2) of an invalid date
getDate(txtDate, now) ==
    LET full == ParseMDY(txtDate)
        part == ParseMD(txtDate)
    IN IF full.ok THEN full
       ELSE IF ~part.ok THEN ParseError
       ELSE [ok |-> TRUE, t |-> thisYearOrLastYear(part.t, now)]

(***************************************************************************)
(* Entries.  An Entry is an InvoiceEntry or a ShuhoEntry record.           *)
(***************************************************************************)
InvoiceEntry(rowNum, IDate, ICaseNum, IType, IWordCount, rate) ==
    [kind |-> "InvoiceEntry", rowNum |-> rowNum, IDate |-> IDate,
     ICaseNum |-> ICaseNum, IType |-> IType, IWordCount |-> IWordCount,
     rate |-> rate]

ShuhoEntry(SDate, SCaseNum, SType, SCWordCount, STWordCount, SAuthor) ==
    [kind |-> "ShuhoEntry", SDate |-> SDate, SCaseNum |-> SCaseNum,
     SType |-> SType, SCWordCount |-> SCWordCount,
     STWordCount |-> STWordCount, SAuthor |-> SAuthor]

getShuhoEntryWordCount(e) ==
    IF e.SType = Honyaku THEN e.STWordCount
    ELSE IF e.SType = EibunCheck THEN e.SCWordCount
    ELSE UNKNOWN

signature(e) ==
    IF e.kind = "InvoiceEntry"
    THEN Sprintf3(e.ICaseNum, e.IType, e.IWordCount)
    ELSE Sprintf3(e.SCaseNum, e.SType, getShuhoEntryWordCount(e))

EDate(e) == IF e.kind = "InvoiceEntry" THEN e.IDate ELSE e.SDate

EType(e) == IF e.kind = "InvoiceEntry" THEN e.IType ELSE e.SType

Rate(e) == IF e.kind = "InvoiceEntry" THEN e.rate ELSE <<>>

WordCount(e) ==
    IF e.kind = "InvoiceEntry" THEN e.IWordCount ELSE getShuhoEntryWordCount(e)

\* the case number field (no method of Entry reads it alone)
CaseNum(e) == IF e.kind = "InvoiceEntry" THEN e.ICaseNum ELSE e.SCaseNum

(***************************************************************************)
(* The normalizer.  A row is a sequence of strings; Col(row, i) is the     *)
(* program's row[i].  A workbook is a sequence of sheets, a sheet a        *)
(* sequence of rows.                                                       *)
(***************************************************************************)
Col(row, i) == row[i + 1]

\* regexp `^(?i)ALP-$`
MatchALP(s) ==
    /\ Len(s) = 4
    /\ s[1] \in {"A", "a"} /\ s[2] \in {"L", "l"} /\ s[3] \in {"P", "p"}
    /\ s[4] = "-"

checkForEmptyCase(caseField) == MatchALP(caseField) /\ caseField = <<>>

\* regexp `^\d+-\d+-\d+$` on the whole of u
MatchDashes(u) ==
    \E p, q \in 1..Len(u) :
        /\ p < q /\ u[p] = "-" /\ u[q] = "-"
        /\ AllDigits(SubSeq(u, 1, p - 1))
        /\ AllDigits(SubSeq(u, p + 1, q - 1))
        /\ AllDigits(SubSeq(u, q + 1, Len(u)))

\* dateRe: regexp `\d+-\d+-\d+$`, which may start anywhere in s
dateRe(s) == \E i \in 1..Len(s) : MatchDashes(SubSeq(s, i, Len(s)))

\* regexp `^(?i)\d+/\d+$`
checkForValidDate(dateField) ==
    \E p \in 1..Len(dateField) :
        /\ dateField[p] = "/"
        /\ AllDigits(SubSeq(dateField, 1, p - 1))
        /\ AllDigits(SubSeq(dateField, p + 1, Len(dateField)))

\* rowNotComplete reads row[5] when row[0..4] are all non-empty: a row of
\* five fields then indexes out of range
rowNotCompletePanics(row) ==
    Len(row) < 6 /\ \A i \in 0..4 : Col(row, i) # <<>>

rowNotComplete(row) ==
    \/ \E i \in 0..4 : Col(row, i) = <<>>
    \/ Col(row, 5) = <<>>
    \/ checkForEmptyCase(Col(row, 1))

RECURSIVE parseInvoiceRows(_, _, _)
\* the rows.Next() loop of parseInvoice; status is "ok", "panic" or "exit2"
parseInvoiceRows(rows, entries, now) ==
    IF rows = <<>> THEN [status |-> "ok", entries |-> entries]
    ELSE LET row == Head(rows)
             d == getDate(Col(row, 3), now)
             tmp == ReplaceAll(Col(row, 4), ",")
             ie == InvoiceEntry(Col(row, 0), d.t,
                                ReplaceAll(Col(row, 1), ","), Col(row, 2),
                                ReplaceAll(tmp, " "), Col(row, 5))
         IN IF Len(row) < 5 THEN parseInvoiceRows(Tail(rows), entries, now)
            ELSE IF rowNotCompletePanics(row)
                 THEN [status |-> "panic", entries |-> entries]
            ELSE IF rowNotComplete(row)
                 THEN parseInvoiceRows(Tail(rows), entries, now)
            ELSE IF ~dateRe(Col(row, 3))
                 THEN parseInvoiceRows(Tail(rows), entries, now)
            ELSE IF ~d.ok THEN [status |-> "exit2", entries |-> entries]
            ELSE parseInvoiceRows(Tail(rows), Append(entries, ie), now)

\* only the last sheet of the workbook is read
parseInvoice(f, now) ==
    IF f = <<>> THEN [status |-> "ok", entries |-> <<>>]
    ELSE parseInvoiceRows(f[Len(f)], <<>>, now)

RECURSIVE parseShuhoRows(_, _, _)
\* the rows.Next() loop of parseShuho over one sheet
parseShuhoRows(rows, entries, now) ==
    IF rows = <<>> THEN [status |-> "ok", entries |-> entries]
    ELSE LET row == Head(rows)
             d == getDate(Col(row, 0), now)
             tmpC == ReplaceAll(Col(row, 3), ",")
             tmpT == ReplaceAll(Col(row, 4), ",")
             se == ShuhoEntry(d.t, ReplaceAll(Col(row, 1), ","), Col(row, 2),
                              ReplaceAll(tmpC, " "), ReplaceAll(tmpT, " "),
                              Col(row, 6))
         IN IF Len(row) < 6 THEN parseShuhoRows(Tail(rows), entries, now)
            ELSE IF ~checkForValidDate(Col(row, 0))
                 THEN parseShuhoRows(Tail(rows), entries, now)
            ELSE IF checkForEmptyCase(Col(row, 1))
                 THEN parseShuhoRows(Tail(rows), entries, now)
            ELSE IF Col(row, 2) = <<>>
                 THEN parseShuhoRows(Tail(rows), entries, now)
            ELSE IF Len(row) < 7
                 THEN [status |-> "panic", entries |-> entries]
            ELSE IF Col(row, 6) = <<>>
                 THEN parseShuhoRows(Tail(rows), entries, now)
            ELSE IF Col(row, 3) = <<>> /\ Col(row, 4) = <<>>
                 THEN parseShuhoRows(Tail(rows), entries, now)
            ELSE IF ~d.ok THEN [status |-> "exit2", entries |-> entries]
            ELSE parseShuhoRows(Tail(rows), Append(entries, se), now)

RECURSIVE parseShuhoSheets(_, _, _, _)
\* the sheet loop of parseShuho: the sheet of index 0 is skipped
parseShuhoSheets(f, index, entries, now) ==
    IF index >= Len(f) THEN [status |-> "ok", entries |-> entries]
    ELSE IF index = 0 THEN parseShuhoSheets(f, index + 1, entries, now)
    ELSE LET r == parseShuhoRows(f[index + 1], entries, now)
         IN IF r.status # "ok" THEN r
            ELSE parseShuhoSheets(f, index + 1, r.entries, now)

parseShuho(f, now) == parseShuhoSheets(f, 0, <<>>, now)

(***************************************************************************)
(* The validators.  Each returns [panic |-> BOOLEAN, lines |-> the lines   *)
(* it prints]; a line names its message and the entry it shows.            *)
(***************************************************************************)
NoEntry == [kind |-> "none"]

ErrorLine(msg, e) == [level |-> "ERROR", msg |-> msg, entry |-> e]

\* showCheckSuccess
showCheckSuccess(message) == [level |-> "OKAY", msg |-> message, entry |-> NoEntry]

Printed(lines) == [panic |-> FALSE, lines |-> lines]

Panicked(lines) == [panic |-> TRUE, lines |-> lines]

RECURSIVE rateErrorsTranslationOnly(_)
\* rateErrors without the branch of the check rate
rateErrorsTranslationOnly(entries) ==
    IF entries = <<>> THEN 0
    ELSE LET entry == Head(entries)
             bad == IF Rate(entry) = Rate18 THEN EType(entry) # Honyaku
                    ELSE FALSE
         IN (IF bad THEN 1 ELSE 0) + rateErrorsTranslationOnly(Tail(entries))

RECURSIVE rateErrors(_)
\* the loop of ensureRatesAreCorrect: the number of entries counted in errors
rateErrors(entries) ==
    IF entries = <<>> THEN 0
    ELSE LET entry == Head(entries)
             bad == IF Rate(entry) = Rate18 THEN EType(entry) # Honyaku
                    ELSE IF Rate(entry) = Rate14 THEN EType(entry) # EibunCheck
                    ELSE FALSE
         IN (IF bad THEN 1 ELSE 0) + rateErrors(Tail(entries))

ensureRatesAreCorrect(entries) ==
    IF rateErrors(entries) # 0
    THEN Printed(<<ErrorLine("Rate is incorrect", entries[Len(entries)])>>)
    ELSE Printed(<<showCheckSuccess("Invoice rates are correct")>>)

RECURSIVE countSignature(_, _)
\* an inner loop: how many of entries have the signature sig
countSignature(sig, entries) ==
    IF entries = <<>> THEN 0
    ELSE (IF signature(Head(entries)) = sig THEN 1 ELSE 0)
         + countSignature(sig, Tail(entries))

\* copies is reset for every entry, so what is left after the outer loop is
\* the count of the last entry; with no entry it is 0 and entry is nil
ensureNoDuplicateInvoiceEntries(entries) ==
    LET entry == entries[Len(entries)]
        copies == IF entries = <<>> THEN 0
                  ELSE countSignature(signature(entry), entries)
    IN IF copies # 1
       THEN IF entries = <<>> THEN Panicked(<<>>)
            ELSE Printed(<<ErrorLine("Duplicate entry", entry)>>)
       ELSE Printed(<<showCheckSuccess("No Duplicate Invoice Entries")>>)

startDate(ientries) == EDate(ientries[1])

endDate(ientries) == EDate(ientries[Len(ientries)])

inScope(entry, ientries) ==
    /\ After(EDate(entry), AddDate(startDate(ientries), -1))
    /\ Before(EDate(entry), AddDate(endDate(ientries), 1))

\* indexes ientries[0]: panics on an empty ledger (see getScopedShuhoPanics)
getScopedShuho(sentries, ientries) ==
    SelectSeq(sentries, LAMBDA entry : inScope(entry, ientries))

getScopedShuhoPanics(ientries) == ientries = <<>>

\* invoiceNotInShuho that stops at the first ledger entry it reports
invoiceNotInShuhoFirstOnly(ientries, scopedShuhoEntries) ==
    LET missing == {i \in 1..Len(ientries) :
                       \A j \in 1..Len(scopedShuhoEntries) :
                           signature(scopedShuhoEntries[j]) # signature(ientries[i])}
    IN IF missing = {} THEN <<>>
       ELSE LET first == CHOOSE i \in missing : \A j \in missing : i <= j
            IN <<[level |-> "ERROR", msg |-> "Invoice Entry Not in Shuho", entry |-> ientries[first]]>>

RECURSIVE invoiceNotInShuho(_, _)
\* the outer loop of ensureInvoiceEntriesAreInShuho: its error lines
invoiceNotInShuho(ientries, scopedShuhoEntries) ==
    IF ientries = <<>> THEN <<>>
    ELSE LET ientry == Head(ientries)
             copies == countSignature(signature(ientry), scopedShuhoEntries)
         IN (IF copies < 1
             THEN <<ErrorLine("Invoice Entry Not in Shuho", ientry)>>
             ELSE <<>>)
            \o invoiceNotInShuho(Tail(ientries), scopedShuhoEntries)

ensureInvoiceEntriesAreInShuho(sentries, ientries) ==
    IF getScopedShuhoPanics(ientries) THEN Panicked(<<>>)
    ELSE LET scopedShuhoEntries == getScopedShuho(sentries, ientries)
             errs == invoiceNotInShuho(ientries, scopedShuhoEntries)
         IN IF Len(errs) = 0
            THEN Printed(<<showCheckSuccess("All Invoice Entries are in the Shuho")>>)
            ELSE Printed(errs)

RECURSIVE shuhoNotInInvoiceAtLeastOnce(_, _)
\* shuhoNotInInvoice asking for at least one ledger match, not exactly one
shuhoNotInInvoiceAtLeastOnce(scopedShuhoEntries, ientries) ==
    IF scopedShuhoEntries = <<>> THEN <<>>
    ELSE LET sentry == Head(scopedShuhoEntries)
             copies == Cardinality({i \in 1..Len(ientries) :
                                       signature(ientries[i]) = signature(sentry)})
         IN (IF copies < 1
             THEN <<[level |-> "ERROR", msg |-> "Shuho Entry Not in Invoice", entry |-> sentry]>>
             ELSE <<>>)
            \o shuhoNotInInvoiceAtLeastOnce(Tail(scopedShuhoEntries), ientries)

RECURSIVE shuhoNotInInvoice(_, _)
\* the outer loop of ensureShuhoEntriesAreInShuho: its error lines
shuhoNotInInvoice(scopedShuhoEntries, ientries) ==
    IF scopedShuhoEntries = <<>> THEN <<>>
    ELSE LET sentry == Head(scopedShuhoEntries)
             copies == countSignature(signature(sentry), ientries)
         IN (IF copies # 1
             THEN <<ErrorLine("Shuho Entry Not in Invoice", sentry)>>
             ELSE <<>>)
            \o shuhoNotInInvoice(Tail(scopedShuhoEntries), ientries)

ensureShuhoEntriesAreInShuho(sentries, ientries) ==
    IF getScopedShuhoPanics(ientries) THEN Panicked(<<>>)
    ELSE LET scopedShuhoEntries == getScopedShuho(sentries, ientries)
             errs == shuhoNotInInvoice(scopedShuhoEntries, ientries)
         IN IF Len(errs) = 0
            THEN Printed(<<showCheckSuccess("All Shuho Entries are in the Invoice")>>)
            ELSE Printed(errs)

(***************************************************************************)
(* The aggregator.  A float64 is a whole number of 10^-precision units     *)
(* where it is a parsed string or a rounded total, and of 10^-(2*precision)*)
(* units where it is a product or a sum of products; strings with more     *)
(* than precision fraction digits are not inputs of the model.             *)
(***************************************************************************)
precision == 2
Surcharge == 8116
MonthsPerYear == 12

RECURSIVE Pow10(_)
Pow10(n) == IF n = 0 THEN 1 ELSE 10 * Pow10(n - 1)

RECURSIVE DigitsVal(_)
DigitsVal(s) ==
    IF s = <<>> THEN 0
    ELSE 10 * DigitsVal(SubSeq(s, 1, Len(s) - 1)) + DigitVal(s[Len(s)])

\* strconv.ParseFloat(s, 64) on decimal numerals: an optional sign, digits,
\* an optional point and digits; anything else is a syntax error, value 0
ParseFloat(s) ==
    LET signed == s # <<>> /\ Head(s) \in {"-", "+"}
        body == IF signed THEN Tail(s) ELSE s
        dots == {i \in 1..Len(body) : body[i] = "."}
        p == IF dots = {} THEN Len(body) + 1 ELSE CHOOSE i \in dots : TRUE
        ip == SubSeq(body, 1, p - 1)
        fp == SubSeq(body, p + 1, Len(body))
        wellFormed ==
            /\ Cardinality(dots) <= 1
            /\ \A i \in 1..Len(ip) : ip[i] \in Digits
            /\ \A i \in 1..Len(fp) : fp[i] \in Digits
            /\ Len(ip) + Len(fp) >= 1
            /\ Len(fp) <= precision
        v == DigitsVal(ip) * Pow10(precision) + DigitsVal(fp) * Pow10(precision - Len(fp))
    IN IF wellFormed
       THEN [ok |-> TRUE, v |-> IF Head(s) = "-" THEN 0 - v ELSE v]
       ELSE [ok |-> FALSE, v |-> 0]

RECURSIVE sumEntriesOfAllTypes(_, _)
\* sumEntries without the screening by type
sumEntriesOfAllTypes(ientries, eType) ==
    IF ientries = <<>> THEN 0
    ELSE LET ie == Head(ientries)
             rate == ParseFloat(Rate(ie)).v
             wordc == ParseFloat(WordCount(ie)).v
         IN wordc * rate + sumEntriesOfAllTypes(Tail(ientries), eType)

RECURSIVE sumEntries(_, _)
\* the total of sumEntries, in 10^-(2*precision) units
sumEntries(ientries, eType) ==
    IF ientries = <<>> THEN 0
    ELSE LET ie == Head(ientries)
             rate == ParseFloat(Rate(ie)).v
             wordc == ParseFloat(WordCount(ie)).v
         IN (IF EType(ie) = eType THEN wordc * rate ELSE 0)
            + sumEntries(Tail(ientries), eType)

RECURSIVE sumEntriesErrors(_, _)
\* the lines sumEntries prints: the error of each word count it cannot parse
sumEntriesErrors(ientries, eType) ==
    IF ientries = <<>> THEN <<>>
    ELSE LET ie == Head(ientries)
         IN (IF EType(ie) = eType /\ ~ParseFloat(WordCount(ie)).ok
             THEN <<[level |-> "err", msg |-> "strconv.ParseFloat: invalid syntax", entry |-> ie]>>
             ELSE <<>>)
            \o sumEntriesErrors(Tail(ientries), eType)

\* roundFloat(val, precision): math.Round rounds half away from zero
roundFloat(val) ==
    LET ratio == Pow10(precision)
        abs == IF val < 0 THEN 0 - val ELSE val
        r == (2 * abs + ratio) \div (2 * ratio)
    IN IF val < 0 THEN 0 - r ELSE r

\* the totals main prints, in 10^-precision units
mainTotals(ientries) ==
    LET ieTotal == roundFloat(sumEntries(ientries, Honyaku))
        icTotal == roundFloat(sumEntries(ientries, EibunCheck))
        pretax == icTotal + ieTotal + Surcharge
    IN [ieTotal |-> ieTotal, icTotal |-> icTotal, pretax |-> pretax,
        yearly |-> pretax * MonthsPerYear]

NoTotals == [ieTotal |-> 0, icTotal |-> 0, pretax |-> 0, yearly |-> 0]

(***************************************************************************)
(* Inputs: the rows the two workbooks may hold.                            *)
(***************************************************************************)
Jun01 == <<"0", "6", "-", "0", "1", "-", "2", "3">>
Jun02 == <<"0", "6", "-", "0", "2", "-", "2", "3">>
Jun03 == <<"0", "6", "-", "0", "3", "-", "2", "3">>

\* ledger rows: row id, case number, type, date, word count, rate
InvoiceRowPool ==
    { <<<<"1">>, <<"A">>, Honyaku, Jun01, <<"1", ",", "0", "0", "0">>, Rate18>>,
      <<<<"2">>, <<"A", " ", "B">>, EibunCheck, Jun02, <<"2", "0", "0">>, Rate18>>,
      <<<<"3">>, <<"A">>, <<"B", " ">> \o EibunCheck, Jun03, <<"2", "0", "0">>, Rate14>>,
      <<<<"4">>, <<"A", "L", "P", "-">>, Honyaku, Jun02, <<"5">>, <<"2", "0">>>> }

\* log rows: date, case number, type, check words, translation words,
\* a column the program does not read, author
ShuhoRowPool ==
    { <<<<"6", "/", "1">>, <<"A">>, Honyaku, <<>>, <<"1", "0", "0", "0">>, <<>>, <<"J", "R">>>>,
      <<<<"6", "/", "2">>, <<"A", " ", "B">>, EibunCheck, <<"2", "0", "0">>, <<>>, <<>>, <<"J", "R">>>>,
      <<<<"6", "/", "3">>, <<"A", "L", "P", "-">>, Honyaku, <<>>, <<"5">>, <<>>, <<"J", "R">>>> }

\* the first sheet of the shuho workbook is a template
TemplateSheet ==
    << <<<<"6", "/", "2">>, <<"T">>, Honyaku, <<>>, <<"9">>, <<>>, <<"J", "R">>>> >>

\* a sheet of the invoice workbook before its last one
OldInvoiceSheet ==
    << <<<<"9">>, <<"O">>, Honyaku, Jun02, <<"9">>, Rate18>> >>

(***************************************************************************)
(* Rows as the sheets really hold them: short rows, rows with empty        *)
(* cells, and amounts with decimals, next to well-formed rows.             *)
(***************************************************************************)
MaxRawRows == 2

RawInvoiceRowPool ==
    { <<<<"1">>, <<"A">>, Honyaku, Jun01, <<"1", ",", "0", "0", "0">>, Rate18>>,
      <<<<"2">>, <<"B">>, EibunCheck, Jun02, <<"0", ".", "2", "5">>, <<"1", ".", "4", "5">>>>,
      <<<<"3">>, <<"C">>, Honyaku, Jun01, <<"7">>>>,
      <<<<"4">>, <<"D">>, Honyaku, Jun02>>,
      <<<<"5">>, <<"E">>, Honyaku, Jun02, <<>>, Rate18>> }

RawShuhoRowPool ==
    { <<<<"6", "/", "1">>, <<"A">>, Honyaku, <<>>, <<"1", "0", "0", "0">>, <<>>, <<"J", "R">>>>,
      <<<<"6", "/", "1">>, <<"C">>, Honyaku, <<>>, <<"7">>, <<>>>>,
      <<<<"6", "/", "1">>, <<"D">>, Honyaku, <<>>, <<"7">>>>,
      <<<<"6", "/", "2">>, <<>>, EibunCheck, <<"2", "0", "0">>, <<>>, <<>>, <<"J", "R">>>>,
      <<<<"6", "/", "2">>, <<"E">>, Honyaku, <<"2", "0", "0">>, <<>>, <<>>, <<"J", "R">>>>,
      <<<<"6", "/", "2">>, <<"F">>, <<"x">>, <<"2", "0", "0">>, <<>>, <<>>, <<"J", "R">>>> }

SeqsUpTo(S, n) == UNION {[1..k -> S] : k \in 0..n}

\* the day the program runs
RunDays == {Date(2023, 6, 10)}

(***************************************************************************)
(* Inputs of the date resolver: the days of the modelled years, and the    *)
(* partial date strings M/D, written plainly, and zero-padded for January.  *)
(***************************************************************************)
Days == Date(FirstYear, 1, 1)..(Date(FirstYear + NumYears, 1, 1) - 1)

DigitChar(n) == CHOOSE c \in Digits : DigitVal(c) = n

Itoa(n) == IF n < 10 THEN <<DigitChar(n)>> ELSE <<DigitChar(n \div 10), DigitChar(n % 10)>>

Itoa2(n) == <<DigitChar(n \div 10), DigitChar(n % 10)>>

PartialDates ==
    {Itoa(m) \o <<"/">> \o Itoa(d) : m \in 1..12, d \in 1..31}
        \cup {Itoa2(1) \o <<"/">> \o Itoa2(d) : d \in 1..31}

\* the offsets from today of TestThisYearOrLastYear
TestOffsets == {8, 3, -2}

NoDate == [ok |-> FALSE, t |-> 0]

(***************************************************************************)
(* State.                                                                  *)
(***************************************************************************)
VARIABLES
    today,               \* the date of time.Now()
    finvoice,            \* the invoice workbook
    fshuho,              \* the shuho workbook
    pc,                  \* the statement of main that runs next
    invoiceEntries,
    shuhoEntries,
    scopedShuhoEntries,  \* the last result of getScopedShuho
    out,                 \* the lines printed so far
    totals,              \* the totals of the report
    txtDate,             \* the argument of a call of getDate
    theDate,             \* the argument of a call of thisYearOrLastYear
    entryDate            \* the result of that call

vars == <<today, finvoice, fshuho, pc, invoiceEntries, shuhoEntries,
          scopedShuhoEntries, out, totals, txtDate, theDate, entryDate>>

runVars == <<pc, invoiceEntries, shuhoEntries, scopedShuhoEntries, out, totals>>

dateVars == <<txtDate, theDate, entryDate>>

(***************************************************************************)
(* main, from the two opened workbooks on.                                 *)
(***************************************************************************)
Init ==
    /\ today \in RunDays
    /\ finvoice \in {<<OldInvoiceSheet, rows>> : rows \in SeqsUpTo(InvoiceRowPool, MaxInvoiceRows)}
    /\ fshuho \in {<<TemplateSheet, rows>> : rows \in SeqsUpTo(ShuhoRowPool, MaxShuhoRows)}
    /\ pc = "parseInvoice"
    /\ invoiceEntries = <<>>
    /\ shuhoEntries = <<>>
    /\ scopedShuhoEntries = <<>>
    /\ out = <<>>
    /\ totals = NoTotals
    /\ txtDate = <<>>
    /\ theDate = NoDate
    /\ entryDate = NoDate

ParseInvoice ==
    /\ pc = "parseInvoice"
    /\ LET r == parseInvoice(finvoice, today)
       IN /\ invoiceEntries' = r.entries
          /\ pc' = IF r.status = "ok" THEN "parseShuho" ELSE r.status
    /\ UNCHANGED <<today, finvoice, fshuho, shuhoEntries, scopedShuhoEntries, out, totals, dateVars>>

ParseShuho ==
    /\ pc = "parseShuho"
    /\ LET r == parseShuho(fshuho, today)
       IN /\ shuhoEntries' = r.entries
          /\ pc' = IF r.status = "ok" THEN "ensureRatesAreCorrect" ELSE r.status
    /\ UNCHANGED <<today, finvoice, fshuho, invoiceEntries, scopedShuhoEntries, out, totals, dateVars>>

\* a validator's lines are printed; a panic ends the run
Validate(r, next) ==
    /\ out' = out \o r.lines
    /\ pc' = IF r.panic THEN "panic" ELSE next

EnsureRatesAreCorrect ==
    /\ pc = "ensureRatesAreCorrect"
    /\ Validate(ensureRatesAreCorrect(invoiceEntries), "ensureNoDuplicateInvoiceEntries")
    /\ UNCHANGED <<today, finvoice, fshuho, invoiceEntries, shuhoEntries, scopedShuhoEntries, totals, dateVars>>

EnsureNoDuplicateInvoiceEntries ==
    /\ pc = "ensureNoDuplicateInvoiceEntries"
    /\ Validate(ensureNoDuplicateInvoiceEntries(invoiceEntries), "ensureInvoiceEntriesAreInShuho")
    /\ UNCHANGED <<today, finvoice, fshuho, invoiceEntries, shuhoEntries, scopedShuhoEntries, totals, dateVars>>

EnsureInvoiceEntriesAreInShuho ==
    /\ pc = "ensureInvoiceEntriesAreInShuho"
    /\ Validate(ensureInvoiceEntriesAreInShuho(shuhoEntries, invoiceEntries), "ensureShuhoEntriesAreInShuho")
    /\ scopedShuhoEntries' = IF getScopedShuhoPanics(invoiceEntries) THEN <<>>
                             ELSE getScopedShuho(shuhoEntries, invoiceEntries)
    /\ UNCHANGED <<today, finvoice, fshuho, invoiceEntries, shuhoEntries, totals, dateVars>>

EnsureShuhoEntriesAreInShuho ==
    /\ pc = "ensureShuhoEntriesAreInShuho"
    /\ Validate(ensureShuhoEntriesAreInShuho(shuhoEntries, invoiceEntries), "totals")
    /\ scopedShuhoEntries' = IF getScopedShuhoPanics(invoiceEntries) THEN <<>>
                             ELSE getScopedShuho(shuhoEntries, invoiceEntries)
    /\ UNCHANGED <<today, finvoice, fshuho, invoiceEntries, shuhoEntries, totals, dateVars>>

\* the report of the totals, after which main returns
Totals ==
    /\ pc = "totals"
    /\ totals' = mainTotals(invoiceEntries)
    /\ out' = out \o sumEntriesErrors(invoiceEntries, Honyaku)
                  \o sumEntriesErrors(invoiceEntries, EibunCheck)
    /\ pc' = "done"
    /\ UNCHANGED <<today, finvoice, fshuho, invoiceEntries, shuhoEntries, scopedShuhoEntries, dateVars>>

Next ==
    \/ ParseInvoice
    \/ ParseShuho
    \/ EnsureRatesAreCorrect
    \/ EnsureNoDuplicateInvoiceEntries
    \/ EnsureInvoiceEntriesAreInShuho
    \/ EnsureShuhoEntriesAreInShuho
    \/ Totals

Spec == Init /\ [][Next]_vars

(***************************************************************************)
(* The date resolver on its own: one call of getDate on a partial date,    *)
(* or one call of thisYearOrLastYear as the test makes it.                 *)
(***************************************************************************)
\* the same run over workbooks of raw rows
InitRows ==
    /\ today \in RunDays
    /\ finvoice \in {<<OldInvoiceSheet, rows>> : rows \in SeqsUpTo(RawInvoiceRowPool, MaxRawRows)}
    /\ fshuho \in {<<TemplateSheet, rows>> : rows \in SeqsUpTo(RawShuhoRowPool, MaxRawRows)}
    /\ pc = "parseInvoice"
    /\ invoiceEntries = <<>>
    /\ shuhoEntries = <<>>
    /\ scopedShuhoEntries = <<>>
    /\ out = <<>>
    /\ totals = NoTotals
    /\ txtDate = <<>>
    /\ theDate = NoDate
    /\ entryDate = NoDate

SpecRows == InitRows /\ [][Next]_vars

InitDate ==
    /\ today \in Days
    /\ finvoice = <<>>
    /\ fshuho = <<>>
    /\ pc = "date"
    /\ invoiceEntries = <<>>
    /\ shuhoEntries = <<>>
    /\ scopedShuhoEntries = <<>>
    /\ out = <<>>
    /\ totals = NoTotals
    /\ txtDate = <<>>
    /\ theDate = NoDate
    /\ entryDate = NoDate

GetDate ==
    /\ pc = "date"
    /\ \E txt \in PartialDates :
        /\ txtDate' = txt
        /\ entryDate' = getDate(txt, today)
        /\ pc' = IF entryDate'.ok THEN "getDate" ELSE "exit2"
    /\ UNCHANGED <<today, finvoice, fshuho, invoiceEntries, shuhoEntries, scopedShuhoEntries, out, totals, theDate>>

ThisYearOrLastYear ==
    /\ pc = "date"
    /\ \E k \in TestOffsets :
        /\ theDate' = [ok |-> TRUE, t |-> AddDate(today, k)]
        /\ entryDate' = [ok |-> TRUE, t |-> thisYearOrLastYear(AddDate(today, k), today)]
        /\ pc' = "thisYearOrLastYear"
    /\ UNCHANGED <<today, finvoice, fshuho, invoiceEntries, shuhoEntries, scopedShuhoEntries, out, totals, txtDate>>

NextDate == GetDate \/ ThisYearOrLastYear

SpecDate == InitDate /\ [][NextDate]_vars

(***************************************************************************)
(* What the run has done so far.                                           *)
(***************************************************************************)
Range(seq) == {seq[i] : i \in 1..Len(seq)}

AllEntries == Range(invoiceEntries) \cup Range(shuhoEntries)

\* the positions of out that hold a line of message msg
LinesOf(msg) == {k \in 1..Len(out) : out[k].msg = msg}

\* the positions of out that hold a line of message msg showing entry e
LinesOfEntry(msg, e) == {k \in LinesOf(msg) : out[k].entry = e}

RatesChecked ==
    pc \in {"ensureNoDuplicateInvoiceEntries", "ensureInvoiceEntriesAreInShuho",
            "ensureShuhoEntriesAreInShuho", "totals", "done"}

DuplicatesChecked ==
    pc \in {"ensureInvoiceEntriesAreInShuho", "ensureShuhoEntriesAreInShuho", "totals", "done"}

InvoiceInShuhoChecked == pc \in {"ensureShuhoEntriesAreInShuho", "totals", "done"}

ShuhoInInvoiceChecked == pc \in {"totals", "done"}

\* how many ledger entries have the signature of e
LedgerMatches(e) ==
    Cardinality({i \in 1..Len(invoiceEntries) : signature(invoiceEntries[i]) = signature(e)})

\* the window getScopedShuho uses, on whole days
InWindow(e) ==
    /\ EDate(e) >= startDate(invoiceEntries)
    /\ EDate(e) <= endDate(invoiceEntries)

(***************************************************************************)
(* C1: no entry produced by parseInvoice or parseShuho has the placeholder *)
(* case number "ALP-" (in any letter case).                                *)
(***************************************************************************)
C1_NoPlaceholderCase == \A e \in AllEntries : ~MatchALP(CaseNum(e))

(***************************************************************************)
(* C2: ensureNoDuplicateInvoiceEntries prints its success line if and only *)
(* if every ledger entry's signature is the signature of exactly one       *)
(* ledger entry, and its error line otherwise.                             *)
(***************************************************************************)
C2_DuplicateCheckExact ==
    DuplicatesChecked =>
        LET unique == \A i \in 1..Len(invoiceEntries) : LedgerMatches(invoiceEntries[i]) = 1
        IN /\ (LinesOf("No Duplicate Invoice Entries") # {}) <=> unique
           /\ (LinesOf("Duplicate entry") # {}) <=> ~unique

(***************************************************************************)
(* C3: ensureShuhoEntriesAreInShuho prints one error line for each scoped  *)
(* log entry whose signature occurs zero times or more than once among the *)
(* ledger entries, none for a scoped log entry whose signature occurs      *)
(* exactly once, and the success line exactly when it printed no error     *)
(* line.                                                                   *)
(***************************************************************************)
C3_ShuhoInInvoice ==
    ShuhoInInvoiceChecked =>
        /\ \A e \in Range(shuhoEntries) :
              Cardinality(LinesOfEntry("Shuho Entry Not in Invoice", e))
                = Cardinality({i \in 1..Len(shuhoEntries) :
                                  /\ shuhoEntries[i] = e
                                  /\ InWindow(e)
                                  /\ LedgerMatches(e) # 1})
        /\ \A k \in LinesOf("Shuho Entry Not in Invoice") : out[k].entry \in Range(shuhoEntries)
        /\ Cardinality(LinesOf("All Shuho Entries are in the Invoice"))
             = IF LinesOf("Shuho Entry Not in Invoice") = {} THEN 1 ELSE 0

C3_Witness ==
    /\ ShuhoInInvoiceChecked
    /\ \E e \in Range(shuhoEntries) : InWindow(e) /\ LedgerMatches(e) = 0
    /\ \E e \in Range(shuhoEntries) : InWindow(e) /\ LedgerMatches(e) = 1
    /\ \E e \in Range(shuhoEntries) : InWindow(e) /\ LedgerMatches(e) > 1

(***************************************************************************)
(* C4: ensureInvoiceEntriesAreInShuho prints one error line for each       *)
(* ledger entry whose signature is the signature of no log entry inside    *)
(* the scope window, none for a ledger entry matched there at least once,  *)
(* goes on through all ledger entries after a failure, and prints the      *)
(* success line exactly when it printed no error line.                     *)
(***************************************************************************)
MatchedInWindow(e) ==
    \E s \in Range(shuhoEntries) : InWindow(s) /\ signature(s) = signature(e)

C4_InvoiceInShuho ==
    InvoiceInShuhoChecked =>
        /\ \A e \in Range(invoiceEntries) :
              Cardinality(LinesOfEntry("Invoice Entry Not in Shuho", e))
                = Cardinality({i \in 1..Len(invoiceEntries) :
                                  invoiceEntries[i] = e /\ ~MatchedInWindow(e)})
        /\ \A k \in LinesOf("Invoice Entry Not in Shuho") : out[k].entry \in Range(invoiceEntries)
        /\ Cardinality(LinesOf("All Invoice Entries are in the Shuho"))
             = IF LinesOf("Invoice Entry Not in Shuho") = {} THEN 1 ELSE 0

\* a failure at the first ledger entry, a match for a later one, a later
\* failure again, and a log entry of a matching signature outside the window
C4_Witness ==
    /\ InvoiceInShuhoChecked
    /\ Len(invoiceEntries) = 3
    /\ ~MatchedInWindow(invoiceEntries[1])
    /\ MatchedInWindow(invoiceEntries[2])
    /\ ~MatchedInWindow(invoiceEntries[3])
    /\ \E s \in Range(shuhoEntries) :
          ~InWindow(s) /\ signature(s) = signature(invoiceEntries[3])

(***************************************************************************)
(* C5: the scope window of getScopedShuho starts on the earliest date of   *)
(* the ledger entries and ends on their latest date, in whatever order the *)
(* rows appear.                                                            *)
(***************************************************************************)
C5_WindowIsEarliestToLatest ==
    InvoiceInShuhoChecked =>
        /\ \A e \in Range(invoiceEntries) : startDate(invoiceEntries) <= EDate(e)
        /\ \A e \in Range(invoiceEntries) : endDate(invoiceEntries) >= EDate(e)

(***************************************************************************)
(* C6: getScopedShuho retains a log entry dated on the window's start or   *)
(* end date or between them, and drops one dated a day or more before the  *)
(* start or a day or more after the end.                                   *)
(***************************************************************************)
C6_WindowBoundaries ==
    InvoiceInShuhoChecked =>
        \A s \in Range(shuhoEntries) :
            LET start == startDate(invoiceEntries)
                end == endDate(invoiceEntries)
                kept == s \in Range(scopedShuhoEntries)
            IN /\ (EDate(s) = start \/ EDate(s) = end) => kept
               /\ (start < EDate(s) /\ EDate(s) < end) => kept
               /\ (EDate(s) <= start - 1 \/ EDate(s) >= end + 1) => ~kept

(***************************************************************************)
(* C7: ensureRatesAreCorrect reports failure if and only if some ledger    *)
(* entry has rate "18" with a type other than the translation label or     *)
(* rate "1.4" with a type other than the check label; an entry of any      *)
(* other rate never causes a failure.                                      *)
(***************************************************************************)
RateMismatch(e) ==
    \/ Rate(e) = Rate18 /\ EType(e) # Honyaku
    \/ Rate(e) = Rate14 /\ EType(e) # EibunCheck

C7_RateCheck ==
    RatesChecked =>
        LET failure == \E e \in Range(invoiceEntries) : RateMismatch(e)
        IN /\ (LinesOf("Rate is incorrect") # {}) <=> failure
           /\ (LinesOf("Invoice rates are correct") # {}) <=> ~failure

\* failures of both kinds, in a ledger whose last entry is of another rate
C7_Witness ==
    /\ RatesChecked
    /\ Len(invoiceEntries) = 3
    /\ Rate(invoiceEntries[1]) = Rate18 /\ RateMismatch(invoiceEntries[1])
    /\ Rate(invoiceEntries[2]) = Rate14 /\ RateMismatch(invoiceEntries[2])
    /\ Rate(invoiceEntries[3]) \notin {Rate18, Rate14}

(***************************************************************************)
(* C8: two entries have equal signatures if and only if their case         *)
(* numbers, their work types and their resolved word counts are equal;     *)
(* their dates play no part.                                               *)
(***************************************************************************)
C8_SignatureIsTheTriple ==
    \A e1, e2 \in AllEntries :
        (signature(e1) = signature(e2))
            <=> /\ CaseNum(e1) = CaseNum(e2)
                /\ EType(e1) = EType(e2)
                /\ WordCount(e1) = WordCount(e2)

(***************************************************************************)
(* C9: for a partial date M/D that getDate accepts, the resolved year is   *)
(* the current year when M/D falls on or before the month and day of       *)
(* today + 7 days (M/D equal to that month and day included), and the year *)
(* of today + 7 days minus one otherwise.                                  *)
(***************************************************************************)
OnOrBeforeAnchor(m, d, anchor) ==
    m < Month(anchor) \/ (m = Month(anchor) /\ d <= Day(anchor))

C9_ResolvedYear ==
    pc = "getDate" =>
        LET cand == ParseMD(txtDate).t
            anchor == AddDate(today, 7)
        IN Year(entryDate.t)
             = IF OnOrBeforeAnchor(Month(cand), Day(cand), anchor)
               THEN Year(today)
               ELSE Year(anchor) - 1

(***************************************************************************)
(* C10: thisYearOrLastYear applied to today + 8 days returns a date in the *)
(* year before that date's own year, and applied to today + 3 days or to   *)
(* today - 2 days returns a date in the current year.                      *)
(***************************************************************************)
Offset == theDate.t - today

ValidatorStages ==
    {"ensureRatesAreCorrect", "ensureNoDuplicateInvoiceEntries",
     "ensureInvoiceEntriesAreInShuho", "ensureShuhoEntriesAreInShuho", "totals"}

\* C11: once both record sets are loaded, the run goes through the four
\* validators and the totals and completes normally, whatever the two sets
\* hold, an empty ledger included: no step after the loading panics.
C11_RunCompletes ==
    [][(pc \in ValidatorStages) => (pc' # "panic")]_vars

\* C12: a row with fewer fields than the columns the normalizer reads (a
\* ledger row of exactly five fields, a log row of exactly six) is skipped
\* and the next row is processed: normalizing never crashes the run.
C12_ShortRowsSkipped ==
    [][(pc \in {"parseInvoice", "parseShuho"}) => (pc' # "panic")]_vars

\* C13: no normalized entry has an empty mandatory field: a ledger entry has
\* a row id, a case number, a type, a word count and a rate; a log entry has
\* a case number, a type, an author and at least one of its two word counts.
C13_MandatoryFields ==
    /\ \A e \in Range(invoiceEntries) :
        /\ e.rowNum # <<>>
        /\ e.ICaseNum # <<>>
        /\ e.IType # <<>>
        /\ e.IWordCount # <<>>
        /\ e.rate # <<>>
    /\ \A e \in Range(shuhoEntries) :
        /\ e.SCaseNum # <<>>
        /\ e.SType # <<>>
        /\ e.SAuthor # <<>>
        /\ (e.SCWordCount # <<>> \/ e.STWordCount # <<>>)

\* C14: the word count of every normalized entry, the resolved word count
\* of a log entry included, parses as a finite number that is not negative:
\* it is never empty and never a text that is no number.
C14_WordCountIsANumber ==
    \A e \in AllEntries :
        /\ ParseFloat(WordCount(e)).ok
        /\ ParseFloat(WordCount(e)).v >= 0

\* wordCount x rate of one ledger entry, in 10^-(2*precision) units
Amount(e) == ParseFloat(WordCount(e)).v * ParseFloat(Rate(e)).v

RECURSIVE SumOver(_, _)
SumOver(ientries, I) ==
    IF I = {} THEN 0
    ELSE LET i == CHOOSE j \in I : TRUE
         IN Amount(ientries[i]) + SumOver(ientries, I \ {i})

OfType(ientries, eType) == {i \in 1..Len(ientries) : EType(ientries[i]) = eType}

\* r is val rounded to precision decimals, halves away from zero
IsRounded(r, val) ==
    LET ratio == Pow10(precision)
        d == 2 * (val - r * ratio)
    IN IF val >= 0 THEN -ratio <= d /\ d < ratio
                   ELSE -ratio < d /\ d <= ratio

\* C15: the translation subtotal and the check subtotal are the sums of
\* word count x rate over the ledger entries of that type, rounded to two
\* decimals; the pre-surcharge total is the two subtotals plus the surcharge,
\* and the annualized figure is that total times 12: all four are functions
\* of the ledger alone, whatever the log holds and the validators printed.
C15_Totals ==
    pc = "done" =>
        /\ IsRounded(totals.ieTotal, SumOver(invoiceEntries, OfType(invoiceEntries, Honyaku)))
        /\ IsRounded(totals.icTotal, SumOver(invoiceEntries, OfType(invoiceEntries, EibunCheck)))
        /\ totals.pretax = totals.ieTotal + totals.icTotal + Surcharge
        /\ totals.yearly = MonthsPerYear * totals.pretax

\* 1000 words at 18 give the translation subtotal 18000.00, and 0.25 at
\* 1.45 the check subtotal 0.36, next to a log that matches neither fully
C15_Witness ==
    /\ pc = "done"
    /\ Len(invoiceEntries) = 2
    /\ totals.ieTotal = 18000 * Pow10(precision)
    /\ totals.icTotal = 36
    /\ \E k \in 1..Len(out) : out[k].level = "ERROR"

\* the ledger positions that break the rate rule, and those whose signature
\* another ledger position has too
RateOffenders == {i \in 1..Len(invoiceEntries) : RateMismatch(invoiceEntries[i])}

DuplicateOffenders ==
    {i \in 1..Len(invoiceEntries) :
        \E j \in 1..Len(invoiceEntries) :
            j # i /\ signature(invoiceEntries[j]) = signature(invoiceEntries[i])}

Last(I) == CHOOSE i \in I : \A j \in I : j <= i

\* C16: the entry named in the error line of the rate check is the last
\* ledger entry that breaks the rate rule, and the entry named in the error
\* line of the duplicate check is the last ledger entry whose signature
\* another ledger entry shares: the named entry is itself an offender.
C16_NamedEntryIsOffender ==
    /\ RatesChecked =>
        \A k \in LinesOf("Rate is incorrect") :
            /\ RateOffenders # {}
            /\ out[k].entry = invoiceEntries[Last(RateOffenders)]
    /\ DuplicatesChecked =>
        \A k \in LinesOf("Duplicate entry") :
            /\ DuplicateOffenders # {}
            /\ out[k].entry = invoiceEntries[Last(DuplicateOffenders)]

\* t.AddDate(-1, 0, 0): February 29 goes to March 1
YearBefore(t) ==
    IF Month(t) = 2 /\ Day(t) = 29
    THEN Date(Year(t) - 1, 3, 1)
    ELSE Date(Year(t) - 1, Month(t), Day(t))

\* C17: the date getDate resolves a partial date M/D to is not later than
\* today + 7 days and is later than today + 7 days minus one year: it is
\* the most recent M/D on or before today + 7 days.
C17_ResolvedWithinLastYear ==
    pc = "getDate" =>
        LET anchor == AddDate(today, 7)
        IN /\ entryDate.t <= anchor
           /\ entryDate.t > YearBefore(anchor)

====
